---- MODULE Spec2Model ----
(***************************************************************************)
(* Model of custom_components/pax_ble/ble_fan.py: the BleFan client for    *)
(* Pax Calima / Svara bathroom fans.                                       *)
(*                                                                         *)
(* State: the client's fields (_model, _pin, _dev), the liveness of the    *)
(* transport session held in _dev, the bytes the device stores for the     *)
(* characteristic written last, and a record of the operation that has     *)
(* just completed (what it was called with, what it returned or raised,    *)
(* and every call it made on the platform collaborator).                   *)
(*                                                                         *)
(* One action per public method.  Callers serialise calls on one client    *)
(* (one coroutine in flight at a time), so every method is one atomic      *)
(* step: the caller starts an operation when it holds no pending result    *)
(* (last.op = "idle") and takes the result (Return) before the next call.  *)
(* Bytes are sequences of 0..255; struct.pack / struct.unpack are computed *)
(* field by field in little-endian order.                                  *)
(***************************************************************************)
EXTENDS Integers, Sequences, FiniteSets, TLC

VARIABLES model, pin, dev, linkUp, mem, last

vars == <<model, pin, dev, linkUp, mem, last>>

(***************************************************************************)
(* Bounds of the model.                                                    *)
(***************************************************************************)
MaxRetries == 3
MaxNameLen == 2

(***************************************************************************)
(* Program constants.                                                      *)
(***************************************************************************)
AliasFieldLen == 20
DefaultRetries == 3
ResetDeviceCode == 120
ResetValuesCode == 85
MaxFanSpeed == 2500
FanSpeedStep == 25

None == 0
Clients == {1, 2}
Models == {"Calima", "Svara"}
PinValues == {1234, 305419896}

(***************************************************************************)
(* Byte strings and struct.pack / struct.unpack.                           *)
(***************************************************************************)
RECURSIVE Pow256(_)
Pow256(n) == IF n = 0 THEN 1 ELSE 256 * Pow256(n - 1)

FieldSize(c) == IF c = "H" THEN 2 ELSE IF c = "I" THEN 4 ELSE 1

InRange(c, v) ==
    CASE c = "B" -> v >= 0 /\ v <= 255
      [] c = "b" -> v >= -128 /\ v <= 127
      [] c = "H" -> v >= 0 /\ v <= 65535
      [] c = "I" -> v >= 0
      [] OTHER   -> TRUE

ToLE(v, n) == [i \in 1..n |-> (v \div Pow256(i - 1)) % 256]

RECURSIVE FromLE(_)
FromLE(bs) == IF bs = <<>> THEN 0 ELSE bs[1] + 256 * FromLE(Tail(bs))

EncodeField(c, v) ==
    CASE c = "b" -> <<v % 256>>
      [] c = "?" -> <<IF v # 0 THEN 1 ELSE 0>>
      [] OTHER   -> ToLE(v, FieldSize(c))

DecodeField(c, bs) ==
    CASE c = "b" -> IF bs[1] >= 128 THEN bs[1] - 256 ELSE bs[1]
      [] c = "?" -> IF bs[1] # 0 THEN 1 ELSE 0
      [] OTHER   -> FromLE(bs)

RECURSIVE FmtSize(_)
FmtSize(fmt) == IF fmt = <<>> THEN 0 ELSE FieldSize(fmt[1]) + FmtSize(Tail(fmt))

RECURSIVE PackFields(_, _)
PackFields(fmt, vals) ==
    IF fmt = <<>> THEN <<>>
    ELSE EncodeField(fmt[1], vals[1]) \o PackFields(Tail(fmt), Tail(vals))

\* struct.pack("<fmt", *vals): struct.error when a value does not fit its field.
pack(fmt, vals) ==
    IF \A i \in 1..Len(fmt) : InRange(fmt[i], vals[i])
    THEN [ok |-> TRUE, bytes |-> PackFields(fmt, vals)]
    ELSE [ok |-> FALSE, bytes |-> <<>>]

RECURSIVE UnpackFields(_, _)
UnpackFields(fmt, bs) ==
    IF fmt = <<>> THEN <<>>
    ELSE LET n == FieldSize(fmt[1])
         IN  <<DecodeField(fmt[1], SubSeq(bs, 1, n))>>
             \o UnpackFields(Tail(fmt), SubSeq(bs, n + 1, Len(bs)))

\* struct.unpack("<fmt", bs): struct.error unless bs has exactly the format's size.
unpack(fmt, bs) ==
    IF Len(bs) = FmtSize(fmt)
    THEN [ok |-> TRUE, vals |-> UnpackFields(fmt, bs)]
    ELSE [ok |-> FALSE, vals |-> <<>>]

\* struct.pack("20s", bs): truncate to the field length, pad with NUL bytes.
pack20s(bs) ==
    [i \in 1..AliasFieldLen |-> IF i <= Len(bs) THEN bs[i] ELSE 0]

\* bytearray(name, "utf-8") for code points below 0x800.
RECURSIVE Utf8Encode(_)
Utf8Encode(name) ==
    IF name = <<>> THEN <<>>
    ELSE LET c == name[1]
         IN  (IF c < 128 THEN <<c>>
              ELSE <<192 + (c \div 64), 128 + (c % 64)>>)
             \o Utf8Encode(Tail(name))

\* bytes.decode("ascii"): UnicodeDecodeError on a byte above 0x7f.
AsciiDecode(bs) ==
    IF \A i \in 1..Len(bs) : bs[i] < 128
    THEN [ok |-> TRUE, text |-> bs]
    ELSE [ok |-> FALSE, text |-> <<>>]

\* binascii.b2a_hex(val).decode("utf-8"): two hex digits per byte, as digit values.
RECURSIVE bToStr(_)
bToStr(val) ==
    IF val = <<>> THEN <<>>
    ELSE <<val[1] \div 16, val[1] % 16>> \o bToStr(Tail(val))

(***************************************************************************)
(* Characteristic identifiers.                                             *)
(***************************************************************************)
\* self.device.chars[NAME]: the identifier the profile of the model registers.
chars(name) == <<model, name>>
\* A module-level CHARACTERISTIC_* constant used directly as the identifier.
SharedChar(name) == <<"shared", name>>
\* A fixed numeric handle of the device-information service.
InfoHandle(h) == <<"handle", h>>

(***************************************************************************)
(* The operation record.                                                   *)
(***************************************************************************)
\* mem: the bytes the device holds for the characteristic written last, with
\* the call that wrote them.
NoMem == [char |-> <<"none", "none">>, data |-> <<>>, op |-> "none", args |-> <<>>]

Idle == [op |-> "idle", args |-> <<>>, result |-> "ok", ret |-> "None",
         resolves |-> 0, connects |-> 0, disconnects |-> 0,
         reads |-> <<>>, writes |-> <<>>, devBefore |-> None, upBefore |-> FALSE]

Rec(op, args, result, ret, resolves, connects, disconnects, reads, writes) ==
    [op |-> op, args |-> args, result |-> result, ret |-> ret,
     resolves |-> resolves, connects |-> connects, disconnects |-> disconnects,
     reads |-> reads, writes |-> writes,
     devBefore |-> dev, upBefore |-> linkUp]

\* The caller holds no pending result: the next operation may start.
Ready == last.op = "idle"

(***************************************************************************)
(* Connection manager.                                                     *)
(***************************************************************************)
\* Mutant: the liveness the transport reports is not consulted.
isConnectedSlotOnly(d, up) == d # None

\* BleFan.isConnected on the slot value d whose transport liveness is up.
isConnectedOf(d, up) == IF d # None /\ up THEN TRUE ELSE FALSE

isConnected == isConnectedOf(dev, linkUp)

\* BleakClient(d): a new client object, distinct from the one in the slot.
NewClient(d) == CHOOSE c \in Clients : c # d

ConnectOutcomes == {"unresolved", "raise", "false", "true"}

\* What the platform does on each attempt, as far as the loop consumes it:
\* every attempt before the last one consumed fails, and a script shorter
\* than the retry count ends with the attempt that succeeds.
ConnectScripts(retries) ==
    {s \in UNION {[1..n -> ConnectOutcomes] : n \in 0..retries} :
        /\ \A i \in 1..(Len(s) - 1) : s[i] # "true"
        /\ Len(s) < retries => (Len(s) > 0 /\ s[Len(s)] = "true")}

\* Mutant: an unresolved address ends the loop instead of being retried.
RECURSIVE ConnectLoopGivesUp(_, _, _, _, _, _, _)
ConnectLoopGivesUp(retries, script, tries, d, up, rs, cs) ==
    IF ~(tries < retries)
    THEN [dev |-> d, up |-> up, tries |-> tries, resolves |-> rs, connects |-> cs]
    ELSE LET t == tries + 1
             o == script[t]
         IN  IF o = "unresolved"
             THEN [dev |-> d, up |-> up, tries |-> t, resolves |-> rs + 1, connects |-> cs]
             ELSE LET nd == NewClient(d)
                  IN  IF o = "true"
                      THEN [dev |-> nd, up |-> TRUE, tries |-> t,
                            resolves |-> rs + 1, connects |-> cs + 1]
                      ELSE ConnectLoopGivesUp(retries, script, t, nd, FALSE, rs + 1, cs + 1)

\* The while loop of BleFan.connect from the state (tries, d, up).
RECURSIVE ConnectLoop(_, _, _, _, _, _, _)
ConnectLoop(retries, script, tries, d, up, rs, cs) ==
    IF ~(tries < retries)
    THEN [dev |-> d, up |-> up, tries |-> tries, resolves |-> rs, connects |-> cs]
    ELSE LET t == tries + 1
             o == script[t]
         IN  IF o = "unresolved"
             THEN ConnectLoop(retries, script, t, d, up, rs + 1, cs)
             ELSE LET nd == NewClient(d)
                  IN  IF o = "true"
                      THEN [dev |-> nd, up |-> TRUE, tries |-> t,
                            resolves |-> rs + 1, connects |-> cs + 1]
                      ELSE ConnectLoop(retries, script, t, nd, FALSE, rs + 1, cs + 1)

\* script: what the platform does on each attempt the loop makes (nothing
\* is consumed when the client is connected already).
connect(retries, script) ==
    IF isConnected
       THEN /\ script = <<>>
            /\ last' = Rec("connect", [retries |-> retries, script |-> <<>>, tries |-> 0],
                           "ok", TRUE, 0, 0, 0, <<>>, <<>>)
            /\ UNCHANGED <<model, pin, dev, linkUp, mem>>
       ELSE LET r == ConnectLoop(retries, script, 0, dev, linkUp, 0, 0)
            IN  /\ script \in ConnectScripts(retries)
                /\ dev' = r.dev
                /\ linkUp' = r.up
                /\ last' = Rec("connect",
                               [retries |-> retries, script |-> script, tries |-> r.tries],
                               "ok", isConnectedOf(r.dev, r.up),
                               r.resolves, r.connects, 0, <<>>, <<>>)
                /\ UNCHANGED <<model, pin, mem>>

\* Mutant: an error of the transport disconnect leaves the handle in place.
disconnectKeepsHandleOnError(raises) ==
    IF dev # None
       THEN /\ dev' = IF raises THEN dev ELSE None
            /\ linkUp' = FALSE
            /\ last' = Rec("disconnect", [raises |-> raises], "ok", "None",
                           0, 0, 1, <<>>, <<>>)
            /\ UNCHANGED <<model, pin, mem>>
       ELSE /\ last' = Rec("disconnect", [raises |-> FALSE], "ok", "None",
                           0, 0, 0, <<>>, <<>>)
            /\ UNCHANGED <<model, pin, dev, linkUp, mem>>

\* raises: whether the transport disconnect raises.  The transport call made
\* on a client that holds a handle ends the session either way.
disconnect(raises) ==
    IF dev # None
       THEN /\ dev' = None
            /\ linkUp' = FALSE
            /\ last' = Rec("disconnect", [raises |-> raises], "ok", "None",
                           0, 0, 1, <<>>, <<>>)
            /\ UNCHANGED <<model, pin, mem>>
       ELSE /\ ~raises
            /\ last' = Rec("disconnect", [raises |-> FALSE], "ok", "None",
                           0, 0, 0, <<>>, <<>>)
            /\ UNCHANGED <<model, pin, dev, linkUp, mem>>

\* The transport reports that the link of the client in the slot has dropped.
LinkDrop ==
    /\ dev # None
    /\ linkUp
    /\ linkUp' = FALSE
    /\ last' = Rec("drop", <<>>, "ok", "None", 0, 0, 0, <<>>, <<>>)
    /\ UNCHANGED <<model, pin, dev, mem>>

(***************************************************************************)
(* Transport pass-through: _readUUID, _readHandle, _writeUUID.             *)
(* With no client in the slot the attribute access on None raises          *)
(* AttributeError before any transport call.  Otherwise exactly one call   *)
(* reaches the transport; it fails (BleakError) on a dead link, and may    *)
(* fail on a live one (ioOk = FALSE).  The device answers a read with the   *)
(* bytes written last to that characteristic, else with bytes of its own.  *)
(* reads lists <<identifier, bytes returned>>, writes <<identifier, bytes>>.*)
(***************************************************************************)
NoIO == [result |-> "ok", data |-> <<>>, reads |-> <<>>, writes |-> <<>>, mem |-> mem]

\* Mutant: a failed read is retried once.
readUUIDRetries(uuid, ioOk, sample) ==
    IF dev = None
    THEN [NoIO EXCEPT !.result = "AttributeError"]
    ELSE IF linkUp /\ ioOk
    THEN LET data == IF mem.char = uuid THEN mem.data ELSE sample
         IN  [NoIO EXCEPT !.reads = <<<<uuid, data>>>>, !.data = data]
    ELSE [NoIO EXCEPT !.result = "BleakError",
                      !.reads = <<<<uuid, <<>>>>, <<uuid, <<>>>>>>]

readUUID(uuid, ioOk, sample) ==
    IF dev = None
    THEN [NoIO EXCEPT !.result = "AttributeError"]
    ELSE IF linkUp /\ ioOk
    THEN LET data == IF mem.char = uuid THEN mem.data ELSE sample
         IN  [NoIO EXCEPT !.reads = <<<<uuid, data>>>>, !.data = data]
    ELSE [NoIO EXCEPT !.result = "BleakError", !.reads = <<<<uuid, <<>>>>>>]

readHandle(handle, ioOk, sample) == readUUID(handle, ioOk, sample)

writeUUID(uuid, val, ioOk) ==
    IF dev = None
    THEN [NoIO EXCEPT !.result = "AttributeError"]
    ELSE IF linkUp /\ ioOk
    THEN [NoIO EXCEPT !.writes = <<<<uuid, val>>>>,
                      !.mem = [mem EXCEPT !.char = uuid, !.data = val]]
    ELSE [NoIO EXCEPT !.result = "BleakError", !.writes = <<<<uuid, val>>>>]

\* The operation completes: what it returned or raised, and the I/O it did.
Finish(op, args, result, ret, io) ==
    /\ last' = Rec(op, args, result, ret, 0, 0, 0, io.reads, io.writes)
    /\ mem' = io.mem
    /\ UNCHANGED <<model, pin, dev, linkUp>>

\* await self._writeUUID(uuid, pack(fmt, vals)): pack runs before the call.
WriteOp(op, args, uuid, p, ioOk) ==
    IF ~p.ok
    THEN Finish(op, args, "struct.error", "None", NoIO)
    ELSE LET w == writeUUID(uuid, p.bytes, ioOk)
         IN  Finish(op, args, w.result, "None",
                    IF w.result = "ok"
                    THEN [w EXCEPT !.mem.op = op, !.mem.args = args]
                    ELSE w)

(***************************************************************************)
(* What the getters make of the unpacked values.                           *)
(***************************************************************************)
Identity(v) == v
First(v) == v[1]

BoolOf(v) == IF v[1] # 0 THEN TRUE ELSE FALSE

\* Mutant: the wall-switch test comes before the boost test.
TriggerSwitchFirst(m) ==
    IF ((m \div 64) % 4) = 3 THEN "Switch"
    ELSE IF ((m \div 16) % 2) = 1 THEN "Boost"
    ELSE IF (m % 4) = 1 THEN "Trickle ventilation"
    ELSE IF (m % 4) = 2 THEN "Light ventilation"
    ELSE IF (m % 4) = 3 THEN "Humidity ventilation"
    ELSE "No trigger"

\* The trigger getState derives from the mode byte.
Trigger(m) ==
    IF ((m \div 16) % 2) = 1 THEN "Boost"
    ELSE IF ((m \div 64) % 4) = 3 THEN "Switch"
    ELSE IF (m % 4) = 1 THEN "Trickle ventilation"
    ELSE IF (m % 4) = 2 THEN "Light ventilation"
    ELSE IF (m % 4) = 3 THEN "Humidity ventilation"
    ELSE "No trigger"

\* log2 of a power of two (the device samples keep raw humidity - 30 one).
RECURSIVE Log2(_)
Log2(x) == IF x <= 1 THEN 0 ELSE 1 + Log2(x \div 2)

\* FanState(Humidity, Temp, Light, RPM, Mode): humidity in hundredths,
\* temperature v/4 - 2.6 in twentieths of a degree.
FanStateOf(v) ==
    <<IF v[1] > 30 THEN 1000 * Log2(v[1] - 30) ELSE 0,
      5 * v[2] - 52, v[3], v[4], Trigger(v[5])>>

ModeName(v) ==
    CASE v[1] = 0 -> "MultiMode"
      [] v[1] = 1 -> "DraftShutterMode"
      [] v[1] = 2 -> "WallSwitchExtendedRuntimeMode"
      [] v[1] = 3 -> "WallSwitchNoExtendedRuntimeMode"
      [] v[1] = 4 -> "HeatDistributionMode"
      [] OTHER    -> "None"

\* "x and y" on integers: x when x is falsy, else y.
SensitivityOf(l) ==
    <<l[1], IF l[1] = 0 THEN l[1] ELSE l[2], l[3], IF l[3] = 0 THEN l[3] ELSE l[4]>>

\* The value a getter returns for the unpacked fields v.
Convert(conv, v) ==
    CASE conv = "first"       -> First(v)
      [] conv = "bool"        -> BoolOf(v)
      [] conv = "state"       -> FanStateOf(v)
      [] conv = "mode"        -> ModeName(v)
      [] conv = "sensitivity" -> SensitivityOf(v)
      [] OTHER                -> Identity(v)

\* conv(unpack(fmt, await self._readUUID(uuid))).
ReadOp(op, uuid, fmt, ioOk, sample, conv) ==
    LET r == readUUID(uuid, ioOk, sample)
        u == unpack(fmt, r.data)
    IN  IF r.result # "ok" THEN Finish(op, <<>>, r.result, "None", r)
        ELSE IF ~u.ok THEN Finish(op, <<>>, "struct.error", "None", r)
        ELSE Finish(op, <<>>, "ok", Convert(conv, u.vals), r)

(***************************************************************************)
(* Generic GATT characteristics.                                           *)
(***************************************************************************)
InfoOp(op, handle, ioOk, sample) ==
    LET r == readHandle(handle, ioOk, sample)
        t == AsciiDecode(r.data)
    IN  IF r.result # "ok" THEN Finish(op, <<>>, r.result, "None", r)
        ELSE IF ~t.ok THEN Finish(op, <<>>, "UnicodeDecodeError", "None", r)
        ELSE Finish(op, <<>>, "ok", t.text, r)

getDeviceName(ioOk, sample) ==
    InfoOp("getDeviceName", chars("CHARACTERISTIC_MODEL_NAME"), ioOk, sample)
getModelNumber(ioOk, sample) == InfoOp("getModelNumber", InfoHandle("0xD"), ioOk, sample)
getSerialNumber(ioOk, sample) == InfoOp("getSerialNumber", InfoHandle("0xB"), ioOk, sample)
getHardwareRevision(ioOk, sample) ==
    InfoOp("getHardwareRevision", InfoHandle("0xF"), ioOk, sample)
getFirmwareRevision(ioOk, sample) ==
    InfoOp("getFirmwareRevision", InfoHandle("0x11"), ioOk, sample)
getSoftwareRevision(ioOk, sample) ==
    InfoOp("getSoftwareRevision", InfoHandle("0x13"), ioOk, sample)
getManufacturer(ioOk, sample) == InfoOp("getManufacturer", InfoHandle("0x15"), ioOk, sample)

(***************************************************************************)
(* PAX characteristics.                                                    *)
(***************************************************************************)
\* BleFan has no attribute "chars" (the registry is self.device.chars), so
\* evaluating the first argument raises AttributeError before pack or the
\* transport is reached.
setAuthAs(op, p) == Finish(op, <<p>>, "AttributeError", "None", NoIO)

setAuth(p) == setAuthAs("setAuth", p)

authorize == setAuthAs("authorize", pin)

checkAuth(ioOk, sample) ==
    ReadOp("checkAuth", chars("CHARACTERISTIC_PIN_CONFIRMATION"), <<"b">>,
           ioOk, sample, "bool")

setAlias(name, ioOk) ==
    WriteOp("setAlias", <<name>>, chars("CHARACTERISTIC_FAN_DESCRIPTION"),
            [ok |-> TRUE, bytes |-> pack20s(Utf8Encode(name))], ioOk)

\* "await self._readUUID(...).decode(...)" applies .decode to the coroutine
\* object, which has no such attribute: AttributeError, and the coroutine is
\* never started, so no read is issued.
getAlias == Finish("getAlias", <<>>, "AttributeError", "None", NoIO)

HexOp(op, uuid, ioOk, sample) ==
    LET r == readUUID(uuid, ioOk, sample)
    IN  IF r.result # "ok" THEN Finish(op, <<>>, r.result, "None", r)
        ELSE Finish(op, <<>>, "ok", bToStr(r.data), r)

getIsClockSet(ioOk, sample) ==
    HexOp("getIsClockSet", chars("CHARACTERISTIC_STATUS"), ioOk, sample)

getState(ioOk, sample) ==
    ReadOp("getState", chars("CHARACTERISTIC_SENSOR_DATA"),
           <<"H", "H", "H", "H", "B", "H", "B">>, ioOk, sample, "state")

getFactorySettingsChanged(ioOk, sample) ==
    ReadOp("getFactorySettingsChanged", chars("CHARACTERISTIC_FACTORY_SETTINGS_CHANGED"),
           <<"?">>, ioOk, sample, "bool")

getMode(ioOk, sample) ==
    ReadOp("getMode", chars("CHARACTERISTIC_MODE"), <<"B">>, ioOk, sample, "mode")

\* Mutant: the range is checked with the bounds excluded.
FanSpeedsLegalExclusive(speeds) ==
    \A i \in 1..3 :
        /\ speeds[i] % FanSpeedStep = 0
        /\ ~(speeds[i] >= MaxFanSpeed \/ speeds[i] < 0)

\* The validation loop of setFanSpeedSettings: no value fails a check.
FanSpeedsLegal(speeds) ==
    \A i \in 1..3 :
        /\ speeds[i] % FanSpeedStep = 0
        /\ ~(speeds[i] > MaxFanSpeed \/ speeds[i] < 0)

setFanSpeedSettings(humidity, light, trickle, ioOk) ==
    IF ~FanSpeedsLegal(<<humidity, light, trickle>>)
    THEN Finish("setFanSpeedSettings", <<humidity, light, trickle>>,
                "ValueError", "None", NoIO)
    ELSE WriteOp("setFanSpeedSettings", <<humidity, light, trickle>>,
                 chars("CHARACTERISTIC_LEVEL_OF_FAN_SPEED"),
                 pack(<<"H", "H", "H">>, <<humidity, light, trickle>>), ioOk)

getFanSpeedSettings(ioOk, sample) ==
    ReadOp("getFanSpeedSettings", chars("CHARACTERISTIC_LEVEL_OF_FAN_SPEED"),
           <<"H", "H", "H">>, ioOk, sample, "identity")

PyBool(x) == IF x # 0 THEN 1 ELSE 0

setSensorsSensitivity(humidity, light, ioOk) ==
    IF humidity > 3 \/ humidity < 0 \/ light > 3 \/ light < 0
    THEN Finish("setSensorsSensitivity", <<humidity, light>>, "ValueError", "None", NoIO)
    ELSE WriteOp("setSensorsSensitivity", <<humidity, light>>,
                 SharedChar("CHARACTERISTIC_SENSITIVITY"),
                 pack(<<"B", "B", "B", "B">>,
                      <<PyBool(humidity), humidity, PyBool(light), light>>), ioOk)

getSensorsSensitivity(ioOk, sample) ==
    ReadOp("getSensorsSensitivity", SharedChar("CHARACTERISTIC_SENSITIVITY"),
           <<"B", "B", "B", "B">>, ioOk, sample, "sensitivity")

setLightSensorSettings(delayed, running, ioOk) ==
    IF delayed \notin {0, 5, 10} \/ running \notin {5, 10, 15, 30, 60}
    THEN Finish("setLightSensorSettings", <<delayed, running>>, "ValueError", "None", NoIO)
    ELSE WriteOp("setLightSensorSettings", <<delayed, running>>,
                 SharedChar("CHARACTERISTIC_TIME_FUNCTIONS"),
                 pack(<<"B", "B">>, <<delayed, running>>), ioOk)

getLightSensorSettings(ioOk, sample) ==
    ReadOp("getLightSensorSettings", SharedChar("CHARACTERISTIC_TIME_FUNCTIONS"),
           <<"B", "B">>, ioOk, sample, "identity")

getHeatDistributor(ioOk, sample) ==
    ReadOp("getHeatDistributor", SharedChar("CHARACTERISTIC_TEMP_HEAT_DISTRIBUTOR"),
           <<"B", "H", "H">>, ioOk, sample, "identity")

\* Mutant: with the on-flag false only the speed is forced to 0.
setBoostModeKeepsSeconds(on, speed, seconds, ioOk) ==
    IF speed % FanSpeedStep # 0
    THEN Finish("setBoostMode", <<on, speed, seconds>>, "ValueError", "None", NoIO)
    ELSE WriteOp("setBoostMode", <<on, speed, seconds>>, chars("CHARACTERISTIC_BOOST"),
                 pack(<<"B", "H", "H">>, <<on, IF on = 0 THEN 0 ELSE speed, seconds>>),
                 ioOk)

\* on is 0 (False) or 1 (True); pack("B", True) is the byte 1.
setBoostMode(on, speed, seconds, ioOk) ==
    IF speed % FanSpeedStep # 0
    THEN Finish("setBoostMode", <<on, speed, seconds>>, "ValueError", "None", NoIO)
    ELSE WriteOp("setBoostMode", <<on, speed, seconds>>, chars("CHARACTERISTIC_BOOST"),
                 pack(<<"B", "H", "H">>,
                      <<on, IF on = 0 THEN 0 ELSE speed, IF on = 0 THEN 0 ELSE seconds>>),
                 ioOk)

getBoostMode(ioOk, sample) ==
    ReadOp("getBoostMode", chars("CHARACTERISTIC_BOOST"), <<"B", "H", "H">>,
           ioOk, sample, "identity")

getLed(ioOk, sample) == HexOp("getLed", chars("CHARACTERISTIC_LED"), ioOk, sample)

setAutomaticCycles(setting, ioOk) ==
    IF setting < 0 \/ setting > 3
    THEN Finish("setAutomaticCycles", <<setting>>, "ValueError", "None", NoIO)
    ELSE WriteOp("setAutomaticCycles", <<setting>>,
                 chars("CHARACTERISTIC_AUTOMATIC_CYCLES"),
                 pack(<<"B">>, <<setting>>), ioOk)

getAutomaticCycles(ioOk, sample) ==
    ReadOp("getAutomaticCycles", chars("CHARACTERISTIC_AUTOMATIC_CYCLES"), <<"B">>,
           ioOk, sample, "first")

setTimeAs(op, t, ioOk) ==
    WriteOp(op, t, chars("CHARACTERISTIC_CLOCK"), pack(<<"B", "B", "B", "B">>, t), ioOk)

setTime(dayofweek, hour, minute, second, ioOk) ==
    setTimeAs("setTime", <<dayofweek, hour, minute, second>>, ioOk)

getTime(ioOk, sample) ==
    ReadOp("getTime", chars("CHARACTERISTIC_CLOCK"), <<"B", "B", "B", "B">>,
           ioOk, sample, "identity")

\* now = <<isoweekday, hour, minute, second>> of datetime.datetime.now().
setTimeToNow(now, ioOk) == setTimeAs("setTimeToNow", now, ioOk)

\* startingTime and endingTime are datetime.time values, <<hour, minute>>.
setSilentHours(on, startingTime, endingTime, ioOk) ==
    WriteOp("setSilentHours", <<on, startingTime, endingTime>>,
            chars("CHARACTERISTIC_NIGHT_MODE"),
            pack(<<"B", "B", "B", "B", "B">>,
                 <<on, startingTime[1], startingTime[2], endingTime[1], endingTime[2]>>),
            ioOk)

getSilentHours(ioOk, sample) ==
    ReadOp("getSilentHours", chars("CHARACTERISTIC_NIGHT_MODE"),
           <<"B", "B", "B", "B", "B">>, ioOk, sample, "identity")

setTrickleDays(weekdays, weekends, ioOk) ==
    WriteOp("setTrickleDays", <<weekdays, weekends>>,
            chars("CHARACTERISTIC_BASIC_VENTILATION"),
            pack(<<"B", "B">>, <<weekdays, weekends>>), ioOk)

getTrickleDays(ioOk, sample) ==
    ReadOp("getTrickleDays", chars("CHARACTERISTIC_BASIC_VENTILATION"), <<"B", "B">>,
           ioOk, sample, "identity")

getReset(ioOk, sample) ==
    LET r == readUUID(chars("CHARACTERISTIC_RESET"), ioOk, sample)
    IN  Finish("getReset", <<>>, r.result, IF r.result = "ok" THEN r.data ELSE "None", r)

resetDevice(ioOk) ==
    WriteOp("resetDevice", <<>>, chars("CHARACTERISTIC_RESET"),
            pack(<<"I">>, <<ResetDeviceCode>>), ioOk)

resetValues(ioOk) ==
    WriteOp("resetValues", <<>>, chars("CHARACTERISTIC_RESET"),
            pack(<<"I">>, <<ResetValuesCode>>), ioOk)

(***************************************************************************)
(* Inputs: what callers pass and what the device answers.                  *)
(***************************************************************************)
\* Names are sequences of code points: "A", and a two-byte UTF-8 character.
NameChars == {65, 233}
LongName == [i \in 1..(AliasFieldLen + 1) |-> 65]
Names == UNION {[1..n -> NameChars] : n \in 0..MaxNameLen} \cup {LongName}

SpeedInputs == {-25, 10, 25, 2500, 2525}
SensitivityInputs == {-1, 0, 3, 4}
DelayedInputs == {0, 7, 10}
RunningInputs == {5, 20, 60}
BoostSpeedInputs == {-25, 0, 510, 2400}
BoostSecondsInputs == {0, 900, 70000}
CycleInputs == {-1, 0, 3, 4}
ClockInputs == {<<1, 0, 0, 0>>, <<7, 23, 59, 59>>}
TimeInputs == ClockInputs \cup {<<8, 24, 60, 256>>}
MaskInputs == {0, 31, 256}
HourMinuteInputs == {<<0, 0>>, <<23, 59>>}

\* The 12 bytes of the sensor-data characteristic.
SensorBytes(hum, temp, light, rpm, m) ==
    ToLE(hum, 2) \o ToLE(temp, 2) \o ToLE(light, 2) \o ToLE(rpm, 2)
    \o <<m>> \o <<0, 0>> \o <<0>>

ModeBytes == 0..255

TextSamples == {<<80, 97, 120>>, <<200>>}
ByteSamples == {<<0>>, <<3>>, <<255>>, <<>>}
SensorSamples ==
    {SensorBytes(94, 50, 10, 1800, m) : m \in ModeBytes}
    \cup {SensorBytes(30, 0, 0, 0, 0), <<0>>}
SpeedSamples == {<<196, 9, 89, 6, 232, 3>>, <<0, 0>>}
SensitivitySamples == {<<0, 3, 1, 2>>, <<1, 1, 0, 0>>}
PairSamples == {<<5, 60>>, <<0>>}
TripleSamples == {<<1, 96, 9, 132, 3>>, <<0, 0, 0, 0, 0>>}
ClockSamples == {<<3, 12, 30, 15>>}
SilentSamples == {<<1, 22, 0, 6, 30>>}

Init ==
    /\ model \in Models
    /\ pin \in PinValues
    /\ dev = None
    /\ linkUp = FALSE
    /\ mem = NoMem
    /\ last = Idle

\* The caller takes the result of the completed operation.
Return ==
    /\ last.op # "idle"
    /\ last' = Idle
    /\ UNCHANGED <<model, pin, dev, linkUp, mem>>

\* Every operation starts when the caller holds no pending result.
Next ==
    \/ Ready /\ \E retries \in 0..MaxRetries :
         \E script \in ConnectScripts(retries) \cup {<<>>} : connect(retries, script)
    \/ Ready /\ \E raises \in BOOLEAN : disconnect(raises)
    \/ Ready /\ LinkDrop
    \/ Ready /\ authorize
    \/ Ready /\ \E p \in PinValues : setAuth(p)
    \/ Ready /\ getAlias
    \/ Ready /\ \E ioOk \in BOOLEAN, sample \in TextSamples : getDeviceName(ioOk, sample)
    \/ Ready /\ \E ioOk \in BOOLEAN, sample \in TextSamples : getModelNumber(ioOk, sample)
    \/ Ready /\ \E ioOk \in BOOLEAN, sample \in TextSamples : getSerialNumber(ioOk, sample)
    \/ Ready /\ \E ioOk \in BOOLEAN, sample \in TextSamples :
         getHardwareRevision(ioOk, sample)
    \/ Ready /\ \E ioOk \in BOOLEAN, sample \in TextSamples :
         getFirmwareRevision(ioOk, sample)
    \/ Ready /\ \E ioOk \in BOOLEAN, sample \in TextSamples :
         getSoftwareRevision(ioOk, sample)
    \/ Ready /\ \E ioOk \in BOOLEAN, sample \in TextSamples : getManufacturer(ioOk, sample)
    \/ Ready /\ \E ioOk \in BOOLEAN, sample \in ByteSamples : checkAuth(ioOk, sample)
    \/ Ready /\ \E ioOk \in BOOLEAN, sample \in ByteSamples : getIsClockSet(ioOk, sample)
    \/ Ready /\ \E ioOk \in BOOLEAN, sample \in ByteSamples :
         getFactorySettingsChanged(ioOk, sample)
    \/ Ready /\ \E ioOk \in BOOLEAN, sample \in ByteSamples : getMode(ioOk, sample)
    \/ Ready /\ \E ioOk \in BOOLEAN, sample \in ByteSamples : getLed(ioOk, sample)
    \/ Ready /\ \E ioOk \in BOOLEAN, sample \in ByteSamples :
         getAutomaticCycles(ioOk, sample)
    \/ Ready /\ \E ioOk \in BOOLEAN, sample \in ByteSamples : getReset(ioOk, sample)
    \/ Ready /\ \E ioOk \in BOOLEAN, sample \in SensorSamples : getState(ioOk, sample)
    \/ Ready /\ \E ioOk \in BOOLEAN, sample \in SpeedSamples :
         getFanSpeedSettings(ioOk, sample)
    \/ Ready /\ \E ioOk \in BOOLEAN, sample \in SensitivitySamples :
         getSensorsSensitivity(ioOk, sample)
    \/ Ready /\ \E ioOk \in BOOLEAN, sample \in PairSamples :
         getLightSensorSettings(ioOk, sample)
    \/ Ready /\ \E ioOk \in BOOLEAN, sample \in PairSamples : getTrickleDays(ioOk, sample)
    \/ Ready /\ \E ioOk \in BOOLEAN, sample \in TripleSamples :
         getHeatDistributor(ioOk, sample)
    \/ Ready /\ \E ioOk \in BOOLEAN, sample \in TripleSamples : getBoostMode(ioOk, sample)
    \/ Ready /\ \E ioOk \in BOOLEAN, sample \in ClockSamples : getTime(ioOk, sample)
    \/ Ready /\ \E ioOk \in BOOLEAN, sample \in SilentSamples : getSilentHours(ioOk, sample)
    \/ Ready /\ \E ioOk \in BOOLEAN, name \in Names : setAlias(name, ioOk)
    \/ Ready /\ \E ioOk \in BOOLEAN, humidity \in SpeedInputs, light \in SpeedInputs,
                   trickle \in SpeedInputs :
         setFanSpeedSettings(humidity, light, trickle, ioOk)
    \/ Ready /\ \E ioOk \in BOOLEAN, humidity \in SensitivityInputs,
                   light \in SensitivityInputs :
         setSensorsSensitivity(humidity, light, ioOk)
    \/ Ready /\ \E ioOk \in BOOLEAN, delayed \in DelayedInputs, running \in RunningInputs :
         setLightSensorSettings(delayed, running, ioOk)
    \/ Ready /\ \E ioOk \in BOOLEAN, on \in {0, 1}, speed \in BoostSpeedInputs,
                   seconds \in BoostSecondsInputs :
         setBoostMode(on, speed, seconds, ioOk)
    \/ Ready /\ \E ioOk \in BOOLEAN, setting \in CycleInputs :
         setAutomaticCycles(setting, ioOk)
    \/ Ready /\ \E ioOk \in BOOLEAN, t \in TimeInputs :
         setTime(t[1], t[2], t[3], t[4], ioOk)
    \/ Ready /\ \E ioOk \in BOOLEAN, now \in ClockInputs : setTimeToNow(now, ioOk)
    \/ Ready /\ \E ioOk \in BOOLEAN, on \in {0, 1}, startingTime \in HourMinuteInputs,
                   endingTime \in HourMinuteInputs :
         setSilentHours(on, startingTime, endingTime, ioOk)
    \/ Ready /\ \E ioOk \in BOOLEAN, weekdays \in MaskInputs, weekends \in MaskInputs :
         setTrickleDays(weekdays, weekends, ioOk)
    \/ Ready /\ \E ioOk \in BOOLEAN : resetDevice(ioOk)
    \/ Ready /\ \E ioOk \in BOOLEAN : resetValues(ioOk)
    \/ Return

Spec == Init /\ [][Next]_vars

(***************************************************************************)
(* Properties.  A state with last.op # "idle" is the state in which the    *)
(* operation last.op has just completed.                                   *)
(***************************************************************************)
ConnectedBefore == isConnectedOf(last.devBefore, last.upBefore)

GetSetOps ==
    {"getDeviceName", "getModelNumber", "getSerialNumber", "getHardwareRevision",
     "getFirmwareRevision", "getSoftwareRevision", "getManufacturer",
     "setAuth", "authorize", "checkAuth", "setAlias", "getAlias", "getIsClockSet",
     "getState", "getFactorySettingsChanged", "getMode",
     "setFanSpeedSettings", "getFanSpeedSettings",
     "setSensorsSensitivity", "getSensorsSensitivity",
     "setLightSensorSettings", "getLightSensorSettings", "getHeatDistributor",
     "setBoostMode", "getBoostMode", "getLed",
     "setAutomaticCycles", "getAutomaticCycles",
     "setTime", "getTime", "setTimeToNow", "setSilentHours", "getSilentHours",
     "setTrickleDays", "getTrickleDays", "getReset", "resetDevice", "resetValues"}

TypeOK ==
    /\ model \in Models
    /\ pin \in PinValues
    /\ dev \in {None} \cup Clients
    /\ linkUp \in BOOLEAN
    /\ dev = None => ~linkUp
    /\ last.op \in GetSetOps \cup {"idle", "connect", "disconnect", "drop"}

\* C1: connect(maxRetries) called while not connected never raises, makes at
\* most maxRetries attempts, each with one address resolution and at most one
\* transport connect, stops at the first attempt that succeeds and returns
\* true, and returns false after maxRetries attempts when all of them fail;
\* fail, fail, succeed with maxRetries = 3 is 3 attempts and true.
C1_ConnectRetry ==
    (last.op = "connect" /\ ~ConnectedBefore) =>
        LET a == last.args
            n == a.tries
            succeeded == {i \in 1..Len(a.script) : a.script[i] = "true"}
            resolved == {i \in 1..n : a.script[i] # "unresolved"}
        IN  /\ last.result = "ok"
            /\ n <= a.retries
            /\ last.resolves = n
            /\ last.connects = Cardinality(resolved)
            /\ last.connects <= n
            /\ succeeded # {} =>
                 /\ last.ret = TRUE
                 /\ \A i \in succeeded : n <= i
                 /\ n \in succeeded
            /\ succeeded = {} => (last.ret = FALSE /\ n = a.retries)
            /\ (a.retries = 3 /\ Len(a.script) = 3 /\ succeeded = {3}) =>
                 (n = 3 /\ last.ret = TRUE)

C1_Witness ==
    /\ last.op = "connect"
    /\ ~ConnectedBefore
    /\ last.args.retries = 3
    /\ last.args.script = <<"raise", "unresolved", "true">>
    /\ last.args.tries = 3
    /\ last.ret = TRUE

\* C2: whenever connect returns failure the client holds no handle afterward.
C2_NoHandleAfterFailedConnect ==
    (last.op = "connect" /\ last.ret = FALSE) => dev = None

\* C3: disconnect never raises and always leaves the slot empty and
\* isConnected false, whether or not the transport disconnect raised; with
\* no handle it makes no transport call, with one it makes exactly the
\* disconnect call.
C3_DisconnectClears ==
    last.op = "disconnect" =>
        /\ last.result = "ok"
        /\ dev = None
        /\ ~isConnected
        /\ last.resolves = 0 /\ last.connects = 0
        /\ last.reads = <<>> /\ last.writes = <<>>
        /\ last.disconnects = (IF last.devBefore = None THEN 0 ELSE 1)

C3_Witness ==
    /\ last.op = "disconnect"
    /\ last.devBefore # None
    /\ last.args.raises
    /\ dev = None

\* C4: authorize on a connected client performs exactly one write, to the
\* PIN-code characteristic, of the PIN as 4 little-endian bytes, and completes
\* without error.
C4_AuthorizeWritesPin ==
    (last.op = "authorize" /\ ConnectedBefore) =>
        /\ last.result = "ok"
        /\ last.reads = <<>>
        /\ last.writes = <<<<chars("CHARACTERISTIC_PIN_CODE"), ToLE(pin, 4)>>>>

\* C5: setFanSpeedSettings raises the validation error exactly when one of
\* its three values is not a multiple of 25 within 0..2500; it then has
\* issued no transport call; when it completes it has issued exactly one
\* write of the three values as 16-bit little-endian fields in the order
\* humidity, light, trickle (and so has every legal call on a client that
\* holds a handle, also when that write fails).
LegalSpeeds == {FanSpeedStep * k : k \in 0..(MaxFanSpeed \div FanSpeedStep)}

C5_FanSpeedValidation ==
    last.op = "setFanSpeedSettings" =>
        LET a == last.args
            legal == a[1] \in LegalSpeeds /\ a[2] \in LegalSpeeds /\ a[3] \in LegalSpeeds
            payload == <<a[1] % 256, a[1] \div 256, a[2] % 256, a[2] \div 256,
                         a[3] % 256, a[3] \div 256>>
            one == <<<<chars("CHARACTERISTIC_LEVEL_OF_FAN_SPEED"), payload>>>>
        IN  /\ (last.result = "ValueError") <=> ~legal
            /\ last.result = "ValueError" => (last.writes = <<>> /\ last.reads = <<>>)
            /\ last.result = "ok" => (last.writes = one /\ last.reads = <<>>)
            /\ (legal /\ last.devBefore # None) => last.writes = one

C5_Witness ==
    /\ last.op = "setFanSpeedSettings"
    /\ last.args = <<25, 2500, 25>>
    /\ last.result = "ok"
    /\ Len(last.writes) = 1

\* C6 as stated: with the on-flag false, for every speed and seconds, the
\* write (0, 0, 0) to the boost characteristic is issued.
C6_BoostOffAlwaysWritesZeros ==
    (last.op = "setBoostMode" /\ last.args[1] = 0 /\ ConnectedBefore) =>
        last.writes = <<<<chars("CHARACTERISTIC_BOOST"), <<0, 0, 0, 0, 0>>>>>>

\* C6 amended: with the on-flag false and a speed that is a multiple of 25,
\* whatever the seconds, a client holding a handle issues exactly one write,
\* (0, 0, 0), to the boost characteristic; a speed that is not a multiple of
\* 25 raises the validation error and nothing is written.
C6_BoostOffWritesZeros ==
    (last.op = "setBoostMode" /\ last.args[1] = 0) =>
        /\ (\E k \in -4..200 : last.args[2] = 25 * k) =>
             /\ last.result # "ValueError"
             /\ last.devBefore # None =>
                  last.writes = <<<<chars("CHARACTERISTIC_BOOST"), <<0, 0, 0, 0, 0>>>>>>
        /\ (\A k \in -4..200 : last.args[2] # 25 * k) =>
             (last.result = "ValueError" /\ last.writes = <<>>)
        /\ last.reads = <<>>

C6_Witness ==
    /\ last.op = "setBoostMode"
    /\ last.args = <<0, 2400, 70000>>
    /\ last.result = "ok"
    /\ last.writes = <<<<chars("CHARACTERISTIC_BOOST"), <<0, 0, 0, 0, 0>>>>>>

\* C7: through a device that stores the bytes written, the getter called on a
\* connected client after the setter of the same characteristic with a legal
\* value v completes without error and returns v (fan speed settings, light
\* sensor settings, automatic cycles, clock time, trickle days, boost mode
\* with the on-flag true, alias with a name of at most 20 bytes).
SetterOf(getter) ==
    CASE getter = "getFanSpeedSettings" -> {"setFanSpeedSettings"}
      [] getter = "getLightSensorSettings" -> {"setLightSensorSettings"}
      [] getter = "getAutomaticCycles" -> {"setAutomaticCycles"}
      [] getter = "getTime" -> {"setTime", "setTimeToNow"}
      [] getter = "getTrickleDays" -> {"setTrickleDays"}
      [] getter = "getBoostMode" -> {"setBoostMode"}
      [] getter = "getAlias" -> {"setAlias"}
      [] OTHER -> {}

\* The getter last.op has run on a connected client, the transport did not
\* fail, and the device holds what the setter of its characteristic wrote.
AfterSetter ==
    /\ mem.op \in SetterOf(last.op)
    /\ ConnectedBefore
    /\ last.result # "BleakError"
    /\ mem.op = "setBoostMode" => mem.args[1] = 1
    /\ mem.op = "setAlias" => Len(Utf8Encode(mem.args[1])) <= AliasFieldLen

Returned ==
    CASE last.op = "getAutomaticCycles" -> <<last.ret>>
      [] last.op = "getAlias" -> <<last.ret>>
      [] OTHER -> last.ret

C7_RoundTrip ==
    AfterSetter => (last.result = "ok" /\ Returned = mem.args)

\* The part of C7 that the code keeps: every pair but the alias.
RoundTripButAlias ==
    (AfterSetter /\ last.op # "getAlias") =>
        (last.result = "ok" /\ Len(last.reads) = 1 /\ Returned = mem.args)

RoundTripReached ==
    /\ AfterSetter
    /\ last.op = "getBoostMode"
    /\ last.ret = <<1, 2400, 900>>

\* C8: connect on a connected client returns true, resolves no address,
\* makes no transport connect and leaves the handle as it is; once the
\* transport has reported the drop, isConnected is false with the handle
\* still in the slot and no disconnect call made, and the next connect (with
\* a retry count of at least 1) makes a new attempt.
C8_ConnectNoOp ==
    /\ (last.op = "connect" /\ ConnectedBefore) =>
         /\ last.result = "ok" /\ last.ret = TRUE
         /\ last.resolves = 0 /\ last.connects = 0 /\ last.disconnects = 0
         /\ dev = last.devBefore
         /\ isConnected
    /\ last.op = "drop" =>
         /\ ~isConnected
         /\ dev = last.devBefore /\ dev # None
         /\ last.disconnects = 0
    /\ (last.op = "connect" /\ last.devBefore # None /\ ~last.upBefore
        /\ last.args.retries >= 1) =>
         (last.args.tries >= 1 /\ last.resolves >= 1)

C8_Witness ==
    /\ last.op = "connect"
    /\ ConnectedBefore
    /\ last.args.retries = DefaultRetries
    /\ last.ret = TRUE
    /\ dev = last.devBefore

C8_WitnessReconnect ==
    /\ last.op = "connect"
    /\ last.devBefore # None /\ ~last.upBefore
    /\ last.args.tries = 1
    /\ last.ret = TRUE
    /\ dev # last.devBefore

\* C9: a get/set operation issues at most one transport read or write, never
\* resolves an address, connects or disconnects, and leaves the handle slot
\* and the link as they were; on a dead link or with no handle it ends in an
\* error, and a failed transport call is the only one it made.
C9_SingleTransaction ==
    last.op \in GetSetOps =>
        /\ Len(last.reads) + Len(last.writes) <= 1
        /\ last.resolves = 0 /\ last.connects = 0 /\ last.disconnects = 0
        /\ dev = last.devBefore /\ linkUp = last.upBefore
        /\ ~ConnectedBefore => last.result # "ok"
        /\ last.devBefore = None => (last.reads = <<>> /\ last.writes = <<>>)
        /\ last.result = "BleakError" => Len(last.reads) + Len(last.writes) = 1
        /\ (last.devBefore # None /\ ~last.upBefore
            /\ Len(last.reads) + Len(last.writes) > 0) => last.result = "BleakError"

C9_Witness ==
    /\ last.op = "setTimeToNow"
    /\ last.devBefore # None /\ ~last.upBefore
    /\ last.result = "BleakError"
    /\ Len(last.writes) = 1
    /\ dev = last.devBefore

\* C10: for every mode byte 0..255 getState reports Boost when bit 4 is set;
\* else Switch when bits 6 and 7 are both set; else Trickle, Light or
\* Humidity ventilation when bits 0-1 are 1, 2 or 3; else No trigger.
Bit(m, k) == (m \div (2 ^ k)) % 2

C10_TriggerPriority ==
    (last.op = "getState" /\ last.result = "ok") =>
        LET m == last.reads[1][2][9]
            low == Bit(m, 0) + 2 * Bit(m, 1)
            t == last.ret[5]
        IN  /\ Bit(m, 4) = 1 => t = "Boost"
            /\ (Bit(m, 4) = 0 /\ Bit(m, 6) = 1 /\ Bit(m, 7) = 1) => t = "Switch"
            /\ (Bit(m, 4) = 0 /\ ~(Bit(m, 6) = 1 /\ Bit(m, 7) = 1)) =>
                 t = (CASE low = 1 -> "Trickle ventilation"
                        [] low = 2 -> "Light ventilation"
                        [] low = 3 -> "Humidity ventilation"
                        [] OTHER   -> "No trigger")

C10_Witness ==
    /\ last.op = "getState"
    /\ last.result = "ok"
    /\ last.reads[1][2][9] = 211
    /\ last.ret[5] = "Boost"

====
